---- MODULE Spec2Model ----
(***************************************************************************)
(* Hybrid vector search and caching engine of microservices-rag-system.    *)
(*                                                                         *)
(* Two repositories are modelled:                                          *)
(*   - OptimizedFAISSRepository (services/vectorstore), with its Redis     *)
(*     result cache and embedding cache, behind VectorService;             *)
(*   - FaissVectorRepository (src/infrastructure/persistence), with the    *)
(*     exact / semantic / hybrid search strategies.                        *)
(*                                                                         *)
(* A text is the set of the words it contains.  The encoder is a black box *)
(* that is deterministic in the text, so a vector is identified with the   *)
(* text it was produced from; scores are in hundredths (0.3 is 30).        *)
(***************************************************************************)
EXTENDS Integers, Sequences, FiniteSets, TLC

\* ------------------------------------------------------------------ bounds

MaxDocs == 2          \* documents held by the repository in Spec and SpecFault
MaxPersistDocs == 11  \* documents ingested in SpecPersist
MaxConcDocs == 2      \* documents ingested in SpecConc
MaxUuid == 3          \* uuid4 values drawn in SpecLegacy
MaxSearchUuid == 3    \* uuid4 values drawn in SpecSearch

Words == {"kniga", "tekst"}
Texts == SUBSET Words
DocTexts == {{"kniga"}, {"kniga", "tekst"}}
Queries == {{"kniga"}}
TopKs == {2}
Thresholds == {30}

DefaultNlist == 100
IndexTypes == {"IndexIVFFlat", "IndexHNSW", "IndexFlatIP"}
NLists == {1, DefaultNlist}

None == "None"

\* ------------------------------------------------------------------ state

VARIABLES
    index_type,        \* OptimizedFAISSRepository.index_type
    nlist,             \* OptimizedFAISSRepository.nlist
    index,             \* the rows of self.index, row position p is index[p + 1]
    is_trained,        \* self.index.is_trained
    documents_cache,   \* self.documents_cache, in insertion order
    redis_results,     \* Redis keys search:<hash>:<top_k>:<threshold>
    redis_embeddings,  \* Redis keys embedding_gen:<hash(text)>
    disk_index,        \* /app/data/faiss_index
    disk_docs,         \* /app/data/documents.json
    resp,              \* what the last request returned to its caller
    rb,                \* a rebuild_index coroutine on the event loop
    sv,                \* a save_document coroutine on the event loop
    sc,                \* a search_similar coroutine on the event loop
    encoder,           \* FaissVectorRepository.encoder is loaded
    faiss_index,       \* FaissVectorRepository.index: None or its vector rows
    documents,         \* FaissVectorRepository.documents, in insertion order
    document_ids,      \* FaissVectorRepository.document_ids
    next_uuid,         \* the next value uuid.uuid4() returns
    index_file,        \* /app/data/faiss_index
    documents_file,    \* /app/data/documents.json
    factories,         \* ModelFactoryRegistry._factories, in insertion order
    next_factory,      \* the identity of the next factory object created
    savers             \* concurrent save_document calls, one per caller

concVars == <<rb, sv, sc>>
\* The registry of the model service: no operation of a repository touches it.
registryVars == <<factories, next_factory>>
legacyVars == <<encoder, faiss_index, documents, document_ids, next_uuid,
                index_file, documents_file, registryVars, savers>>
optVars == <<index_type, nlist, index, is_trained, documents_cache,
             redis_results, redis_embeddings>>
diskVars == <<disk_index, disk_docs>>

vars == <<optVars, diskVars, resp, concVars, legacyVars>>

\* ---------------------------------------------------------------- helpers

Min(a, b) == IF a < b THEN a ELSE b

Percent(n, d) == (n * 100) \div d

\* SentenceTransformer.encode: deterministic in the text.
Embed(text) == text

\* Inner product of two normalised vectors, in hundredths.
Sim(a, b) ==
    IF a = b THEN 100
    ELSE Percent(Cardinality(a \cap b), Cardinality(a \cup b))

\* str(n) of a non-negative integer: its decimal digits.
RECURSIVE Str(_)
Str(n) == IF n < 10 THEN <<n>> ELSE Str(n \div 10) \o <<n % 10>>

\* Python's order on strings, here on strings of digits: character by
\* character, a proper prefix first.
RECURSIVE StrLess(_, _)
StrLess(a, b) ==
    IF a = <<>> THEN b # <<>>
    ELSE IF b = <<>> THEN FALSE
    ELSE IF Head(a) # Head(b) THEN Head(a) < Head(b)
    ELSE StrLess(Tail(a), Tail(b))

\* A Python dict: the sequence of its items in insertion order.
DictKeys(d) == {d[i].key : i \in DOMAIN d}
DictHas(d, k) == k \in DictKeys(d)
DictGet(d, k) == d[CHOOSE i \in DOMAIN d : d[i].key = k].content
DictSet(d, k, v) ==
    IF DictHas(d, k)
    THEN [i \in DOMAIN d |-> IF d[i].key = k THEN [key |-> k, content |-> v] ELSE d[i]]
    ELSE Append(d, [key |-> k, content |-> v])
DictDel(d, k) == SelectSeq(d, LAMBDA e : e.key # k)

\* sorted(items, key=lambda x: x[0]): by the key as a string.
RECURSIVE SortedItems(_)
SortedItems(d) ==
    IF d = <<>> THEN <<>>
    ELSE LET m == CHOOSE i \in DOMAIN d :
                      \A j \in DOMAIN d : i = j \/ StrLess(d[i].key, d[j].key)
         IN  <<d[m]>> \o SortedItems(SelectSeq(d, LAMBDA e : e.key # d[m].key))

\* --------------------------------------- OptimizedFAISSRepository: pure parts

\* _create_new_index: IndexIVFFlat starts untrained, the other two need no
\* training.
NewIndexTrained(type) == type # "IndexIVFFlat"

\* index.train(embedding_array) with the single vector of one document:
\* k-means refuses fewer training points than clusters.
TrainAccepts(points, clusters) == points >= clusters

\* What _generate_embedding hands back: json.loads(...) on a hit and
\* embedding.tolist() on a miss, a Python list either way.
AsList(vec) == [kind |-> "list", vec |-> vec]

\* embedding.tolist() exists on a numpy array only.
HasToList(e) == e.kind = "ndarray"

\* _generate_embedding(text) under an environment fault, on the embedding
\* cache `cache`: whether it raised, its value, and the cache afterwards.
GenerateEmbedding(text, fault, cache) ==
    IF fault = "redis_get"
    THEN [raised |-> TRUE, embedding |-> None, cache |-> cache]
    ELSE IF text \in cache
    THEN [raised |-> FALSE, embedding |-> AsList(Embed(text)), cache |-> cache]
    ELSE IF fault \in {"encoder", "redis_setex"}
    THEN [raised |-> TRUE, embedding |-> None, cache |-> cache]
    ELSE [raised |-> FALSE, embedding |-> AsList(Embed(text)),
          cache |-> cache \cup {text}]

\* index.search(query, k) of a flat inner-product index: the k best rows,
\* best first, the lower row first among equals (1-based positions).
RowBefore(rows, q, a, b) ==
    \/ Sim(q, rows[a]) > Sim(q, rows[b])
    \/ Sim(q, rows[a]) = Sim(q, rows[b]) /\ a < b

RECURSIVE TopRows(_, _, _, _)
TopRows(rows, q, k, taken) ==
    IF k = 0 \/ taken = DOMAIN rows THEN <<>>
    ELSE LET rest == DOMAIN rows \ taken
             best == CHOOSE a \in rest :
                         \A b \in rest : a = b \/ RowBefore(rows, q, a, b)
         IN  <<best>> \o TopRows(rows, q, k - 1, taken \cup {best})

IndexSearch(rows, q, k) == TopRows(rows, q, k, {})

\* A loop that gives up the whole query at the first candidate without a
\* document.
RECURSIVE FilterResultsOrFail(_, _, _, _, _, _, _)
FilterResultsOrFail(rows, docs, q, cand, top_k, threshold, acc) ==
    IF cand = <<>> THEN acc
    ELSE LET i == Head(cand)
             similarity == Sim(q, rows[i])
             doc_id == Str(i - 1)
             keep == similarity >= threshold /\ Len(acc) < top_k
             result == [document_id |-> doc_id,
                        content |-> DictGet(docs, doc_id),
                        relevance_score |-> similarity]
         IN  IF ~DictHas(docs, doc_id) THEN <<>>
             ELSE FilterResultsOrFail(rows, docs, q, Tail(cand), top_k, threshold,
                                      IF keep THEN Append(acc, result) ELSE acc)

\* The loop of search_similar over the candidates: a candidate is kept when
\* its similarity reaches the threshold, fewer than top_k are kept so far and
\* documents_cache has a document under str(idx).
RECURSIVE FilterResults(_, _, _, _, _, _, _)
FilterResults(rows, docs, q, cand, top_k, threshold, acc) ==
    IF cand = <<>> THEN acc
    ELSE LET i == Head(cand)
             similarity == Sim(q, rows[i])
             doc_id == Str(i - 1)
             keep == /\ similarity >= threshold
                     /\ Len(acc) < top_k
                     /\ DictHas(docs, doc_id)
             result == [document_id |-> doc_id,
                        content |-> DictGet(docs, doc_id),
                        relevance_score |-> similarity]
         IN  FilterResults(rows, docs, q, Tail(cand), top_k, threshold,
                           IF keep THEN Append(acc, result) ELSE acc)

\* The result list search_similar computes on a non-empty index.
ComputeResults(rows, docs, q, top_k, threshold) ==
    FilterResults(rows, docs, q,
                  IndexSearch(rows, q, Min(top_k * 2, Len(rows))),
                  top_k, threshold, <<>>)

\* What search_similar computes on a miss: index.search with k = 0 on an
\* empty index ends in the except branch, which returns the empty list.
StoreResults(rows, docs, q, top_k, threshold) ==
    IF Len(rows) = 0 THEN <<>>
    ELSE ComputeResults(rows, docs, q, top_k, threshold)

\* The Redis result cache: a function from the keys it holds to their values.
CacheKey(q, top_k, threshold) == <<q, top_k, threshold>>
CacheHas(cache, k) == k \in DOMAIN cache
CachePut(cache, k, v) ==
    [x \in DOMAIN cache \cup {k} |-> IF x = k THEN v ELSE cache[x]]
CacheDrop(cache, k) == [x \in DOMAIN cache \ {k} |-> cache[x]]
EmptyCache == [x \in {} |-> <<>>]

\* json.dumps([result.__dict__ ...]) and, on a hit, the SearchResult objects
\* rebuilt from json.loads: field by field.
DumpResults(results) ==
    [i \in DOMAIN results |->
        <<results[i].document_id, results[i].content, results[i].relevance_score>>]
LoadResults(items) ==
    [i \in DOMAIN items |->
        [document_id |-> items[i][1], content |-> items[i][2],
         relevance_score |-> items[i][3]]]

\* The rows a rebuild has added after `n` documents of `docs`.
RebuiltRows(docs, n) == [i \in 1..n |-> Embed(docs[i].content)]

\* _load_index: the documents of the manifest, sorted by key and renumbered.
LoadedDocuments(manifest) ==
    LET sorted_docs == SortedItems(manifest)
    IN  [i \in DOMAIN sorted_docs |->
            [key |-> Str(i - 1), content |-> sorted_docs[i].content]]

Response(op, args, status, value) ==
    [op |-> op, args |-> args, status |-> status, value |-> value,
     cache_hit |-> FALSE, fault |-> "none", disk |-> "none", assigned |-> None]

\* _save_index_async: faiss.write_index, then the manifest; an exception in
\* either is logged and ends the save.
WrittenIndex(disk_fault, old, rows, trained) ==
    IF disk_fault = "index" THEN old
    ELSE [exists |-> TRUE, rows |-> rows, is_trained |-> trained]
WrittenDocs(disk_fault, old, docs) ==
    IF disk_fault \in {"index", "docs"} THEN old
    ELSE [exists |-> TRUE, items |-> docs]

\* The contents of the first n documents of docs.
FirstContents(docs, n) == {docs[i].content : i \in 1..n}

\* ------------------------------------- OptimizedFAISSRepository: operations

SaveFaults == {"none", "redis_get", "encoder", "redis_setex"}
SearchFaults == {"none", "encoder", "redis_get", "redis_setex"}
DiskFaults == {"none", "index", "docs"}
EmptyIndexSearch == {"rejects_k0", "returns_nothing"}

\* OptimizedFAISSRepository.save_document
SaveDocument(content, fault, disk_fault) ==
    LET g == GenerateEmbedding(content, fault, redis_embeddings)
        train_fails == /\ index_type = "IndexIVFFlat"
                       /\ ~is_trained
                       /\ ~TrainAccepts(1, nlist)
        doc_id == Str(Len(documents_cache))
        rows == Append(index, g.embedding.vec)
        docs == DictSet(documents_cache, doc_id, content)
        r == Response("save_document", <<content>>, "raised", None)
    IN  /\ redis_embeddings' = g.cache
        /\ UNCHANGED <<legacyVars, concVars, index_type, nlist, redis_results>>
        /\ IF g.raised \/ train_fails
           THEN /\ UNCHANGED <<index, is_trained, documents_cache, diskVars>>
                /\ resp' = [r EXCEPT !.fault = IF g.raised THEN fault ELSE "train"]
           ELSE /\ index' = rows
                /\ is_trained' = TRUE
                /\ documents_cache' = docs
                /\ IF HasToList(g.embedding)
                   THEN /\ disk_index' = WrittenIndex(disk_fault, disk_index, rows, TRUE)
                        /\ disk_docs' = WrittenDocs(disk_fault, disk_docs, docs)
                        /\ resp' = [r EXCEPT !.status = "ok", !.value = doc_id,
                                             !.assigned = doc_id, !.disk = disk_fault]
                   ELSE /\ UNCHANGED diskVars
                        /\ resp' = [r EXCEPT !.fault = "tolist", !.assigned = doc_id]

\* VectorService.search_similar calling OptimizedFAISSRepository.search_similar
SearchRequest(q, top_k, threshold, fault, empty_search) ==
    LET key == CacheKey(Embed(q), top_k, threshold)
        r == Response("search_similar", <<q, top_k, threshold>>, "ok", <<>>)
        results == StoreResults(index, documents_cache, Embed(q), top_k, threshold)
    IN  /\ UNCHANGED <<legacyVars, concVars, index_type, nlist, index, is_trained, documents_cache,
                       redis_embeddings, diskVars>>
        /\ IF fault \in {"encoder", "redis_get"}
           THEN /\ UNCHANGED redis_results
                /\ resp' = [r EXCEPT !.status = "raised", !.value = None, !.fault = fault]
           ELSE IF CacheHas(redis_results, key)
           THEN /\ UNCHANGED redis_results
                /\ resp' = [r EXCEPT !.value = LoadResults(redis_results[key]),
                                     !.cache_hit = TRUE]
           ELSE IF Len(index) = 0
           THEN /\ redis_results' =
                       IF empty_search = "returns_nothing" /\ fault # "redis_setex"
                       THEN CachePut(redis_results, key, DumpResults(<<>>))
                       ELSE redis_results
                /\ resp' = [r EXCEPT !.fault = "empty_index"]
           ELSE IF fault = "redis_setex"
           THEN /\ UNCHANGED redis_results
                /\ resp' = [r EXCEPT !.fault = fault]
           ELSE /\ redis_results' = CachePut(redis_results, key, DumpResults(results))
                /\ resp' = [r EXCEPT !.value = results]

\* OptimizedFAISSRepository.delete_document with _rebuild_index_without_document;
\* `processed` documents are re-embedded before an exception ends the rebuild.
DeleteDocument(document_id, processed) ==
    LET docs == DictDel(documents_cache, document_id)
        added == IF NewIndexTrained(index_type) THEN Min(processed, Len(docs)) ELSE 0
        embedded == IF NewIndexTrained(index_type) THEN added
                    ELSE Min(Min(processed, Len(docs)), 1)
        r == Response("delete_document", <<document_id>>, "ok", FALSE)
    IN  /\ UNCHANGED <<legacyVars, concVars, index_type, nlist, redis_results, diskVars>>
        /\ IF DictHas(documents_cache, document_id)
           THEN /\ documents_cache' = docs
                /\ index' = RebuiltRows(docs, added)
                /\ is_trained' = NewIndexTrained(index_type)
                /\ redis_embeddings' = redis_embeddings \cup FirstContents(docs, embedded)
                /\ resp' = [r EXCEPT !.value = TRUE,
                                     !.fault = IF embedded > added
                                               THEN "add_untrained" ELSE "none"]
           ELSE /\ UNCHANGED <<index, is_trained, documents_cache, redis_embeddings>>
                /\ resp' = r

\* OptimizedFAISSRepository.rebuild_index
RebuildIndex(processed, disk_fault) ==
    LET n == Len(documents_cache)
        train_fails == /\ index_type = "IndexIVFFlat"
                       /\ ~TrainAccepts(1, nlist)
                       /\ n > 0
        embedded == IF train_fails THEN Min(processed, 1) ELSE Min(processed, n)
        added == IF train_fails THEN 0 ELSE Min(processed, n)
        raised == train_fails \/ processed < n
        rows == RebuiltRows(documents_cache, added)
        trained == IF added > 0 THEN TRUE ELSE NewIndexTrained(index_type)
        r == Response("rebuild_index", <<>>, "ok", None)
    IN  /\ UNCHANGED <<legacyVars, concVars, index_type, nlist, documents_cache, redis_results>>
        /\ index' = rows
        /\ is_trained' = trained
        /\ redis_embeddings' = redis_embeddings \cup FirstContents(documents_cache, embedded)
        /\ IF raised
           THEN /\ UNCHANGED diskVars
                /\ resp' = [r EXCEPT !.status = "raised"]
           ELSE /\ disk_index' = WrittenIndex(disk_fault, disk_index, rows, trained)
                /\ disk_docs' = WrittenDocs(disk_fault, disk_docs, documents_cache)
                /\ resp' = [r EXCEPT !.disk = disk_fault]

\* OptimizedFAISSRepository.clear_index
ClearIndex ==
    /\ documents_cache' = <<>>
    /\ index' = <<>>
    /\ is_trained' = NewIndexTrained(index_type)
    /\ UNCHANGED <<legacyVars, concVars, index_type, nlist, redis_results, redis_embeddings, diskVars>>
    /\ resp' = Response("clear_index", <<>>, "ok", TRUE)

\* A new process: OptimizedFAISSRepository.__init__ with _load_index.  The
\* embedding keys are built from hash(text), which a new process salts anew
\* unless the hash seed is fixed: the old entries may no longer be found.
Restart(same_hash_seed) ==
    /\ index' = IF disk_index.exists THEN disk_index.rows ELSE <<>>
    /\ is_trained' = IF disk_index.exists THEN disk_index.is_trained
                     ELSE NewIndexTrained(index_type)
    /\ documents_cache' = IF disk_index.exists /\ disk_docs.exists
                          THEN LoadedDocuments(disk_docs.items) ELSE <<>>
    /\ redis_embeddings' = IF same_hash_seed THEN redis_embeddings ELSE {}
    /\ UNCHANGED <<legacyVars, concVars, index_type, nlist, redis_results, diskVars>>
    /\ resp' = Response("restart", <<>>, "ok", None)

\* Redis drops an entry whose TTL (cache_ttl) has run out.
ExpireResult(key) ==
    /\ CacheHas(redis_results, key)
    /\ redis_results' = CacheDrop(redis_results, key)
    /\ UNCHANGED <<legacyVars, concVars, index_type, nlist, index, is_trained, documents_cache,
                   redis_embeddings, diskVars, resp>>

ExpireEmbedding(text) ==
    /\ text \in redis_embeddings
    /\ redis_embeddings' = redis_embeddings \ {text}
    /\ UNCHANGED <<legacyVars, concVars, index_type, nlist, index, is_trained, documents_cache,
                   redis_results, diskVars, resp>>

\* ------------------------------------------------------------ specification

InitOpt ==
    /\ index_type \in IndexTypes
    /\ nlist \in IF index_type = "IndexIVFFlat" THEN NLists ELSE {DefaultNlist}
    /\ index = <<>>
    /\ is_trained = NewIndexTrained(index_type)
    /\ documents_cache = <<>>
    /\ redis_results = EmptyCache
    /\ redis_embeddings = {}

InitDisk ==
    /\ disk_index = [exists |-> FALSE, rows |-> <<>>, is_trained |-> FALSE]
    /\ disk_docs = [exists |-> FALSE, items |-> <<>>]

IdleRebuild == [pc |-> "idle", i |-> 0, size |-> 0, before |-> <<>>]
IdleSave == [pc |-> "idle", content |-> {}]
IdleSearch == [pc |-> "idle", args |-> <<>>, results |-> <<>>]

MaxSavers == 2
Callers == 1..MaxSavers

\* A save_document call: where it is, and what it did to the store.
IdleSaver == [pc |-> "idle", content |-> {}, added |-> FALSE, doc_id |-> <<>>,
              row |-> 0]

InitConc ==
    /\ rb = IdleRebuild
    /\ sv = IdleSave
    /\ sc = IdleSearch
    /\ savers = [c \in Callers |-> IdleSaver]

NoIndex == [present |-> FALSE, rows |-> <<>>]

\* model_factory.py registers OptimizedModelFactory() as "optimized" on import.
OptimizedModelFactory(n) == [class |-> "OptimizedModelFactory", object |-> n]

InitRegistry ==
    /\ factories = <<[key |-> "optimized", content |-> OptimizedModelFactory(0)]>>
    /\ next_factory = 1

InitLegacy ==
    /\ faiss_index = NoIndex
    /\ documents = <<>>
    /\ document_ids = <<>>
    /\ next_uuid = 1
    /\ index_file = [exists |-> FALSE, rows |-> <<>>]
    /\ documents_file = [exists |-> FALSE, items |-> <<>>]

Init ==
    /\ InitOpt
    /\ InitDisk
    /\ InitConc
    /\ InitLegacy
    /\ InitRegistry
    /\ encoder = TRUE
    /\ resp = Response("none", <<>>, "ok", None)

\* Requests served one after the other; `faults` are the Redis and encoder
\* faults that may strike a request.
SaveStep(faults) ==
    \E content \in DocTexts, fault \in faults, disk_fault \in DiskFaults :
        /\ Len(index) < MaxDocs
        /\ Len(documents_cache) < MaxDocs
        /\ SaveDocument(content, fault, disk_fault)

SearchStep(faults) ==
    \E q \in Queries, top_k \in TopKs, threshold \in Thresholds,
       fault \in faults, empty_search \in EmptyIndexSearch :
        SearchRequest(q, top_k, threshold, fault, empty_search)

DeleteStep ==
    \E n \in 0..MaxDocs, processed \in 0..MaxDocs : DeleteDocument(Str(n), processed)

Next ==
    \/ SaveStep({"none"})
    \/ SearchStep({"none"})
    \/ DeleteStep
    \/ ClearIndex
    \/ \E key \in DOMAIN redis_results : ExpireResult(key)
    \/ \E text \in redis_embeddings : ExpireEmbedding(text)

Spec == Init /\ [][Next]_vars

\* The same requests when Redis or the encoder may fail under them.
NextFault ==
    \/ SaveStep(SaveFaults)
    \/ SearchStep(SearchFaults)
    \/ \E key \in DOMAIN redis_results : ExpireResult(key)
    \/ \E text \in redis_embeddings : ExpireEmbedding(text)

SpecFault == Init /\ [][NextFault]_vars

\* Ingestion, persistence by a rebuild and a restart from the files, with a
\* disk that takes every write.
NextPersist ==
    \/ \E content \in DocTexts :
           /\ Len(index) < MaxPersistDocs
           /\ Len(documents_cache) < MaxPersistDocs
           /\ SaveDocument(content, "none", "none")
    \/ RebuildIndex(Len(documents_cache), "none")
    \/ \E same_hash_seed \in BOOLEAN : Restart(same_hash_seed)

SpecPersist == Init /\ [][NextPersist]_vars

\* ----------------------------------- coroutines interleaved at their awaits

\* rebuild_index up to its first await: the new index replaces self.index and
\* the loop over documents_cache.items() awaits the first embedding.
RbStart ==
    /\ rb.pc = "idle"
    /\ index' = <<>>
    /\ is_trained' = NewIndexTrained(index_type)
    /\ rb' = [pc |-> IF Len(documents_cache) = 0 THEN "saving" ELSE "embedding",
              i |-> 0, size |-> Len(documents_cache), before |-> index]
    /\ UNCHANGED <<legacyVars, index_type, nlist, documents_cache, redis_results,
                   redis_embeddings, diskVars, resp, sv, sc>>

\* rebuild_index resumed with the embedding of its next document: train, add,
\* then the next item of the dict iterator, which raises when the dict has
\* changed size.
RbAdd ==
    LET content == documents_cache[rb.i + 1].content
        train_fails == /\ index_type = "IndexIVFFlat"
                       /\ ~is_trained
                       /\ ~TrainAccepts(1, nlist)
        resized == Len(documents_cache) # rb.size
        r == Response("rebuild_index", <<>>, "raised", None)
    IN  /\ rb.pc = "embedding"
        /\ redis_embeddings' = redis_embeddings \cup {content}
        /\ UNCHANGED <<legacyVars, index_type, nlist, documents_cache, redis_results,
                       diskVars, sv, sc>>
        /\ IF train_fails
           THEN /\ UNCHANGED <<index, is_trained>>
                /\ rb' = IdleRebuild
                /\ resp' = [r EXCEPT !.fault = "train"]
           ELSE /\ index' = Append(index, Embed(content))
                /\ is_trained' = TRUE
                /\ IF resized
                   THEN /\ rb' = IdleRebuild
                        /\ resp' = [r EXCEPT !.fault = "dict_resized"]
                   ELSE /\ rb' = [rb EXCEPT !.i = rb.i + 1,
                                            !.pc = IF rb.i + 1 < rb.size
                                                   THEN "embedding" ELSE "saving"]
                        /\ UNCHANGED resp

\* rebuild_index resumed in _save_index_async: both files are written.
RbSave ==
    /\ rb.pc = "saving"
    /\ disk_index' = WrittenIndex("none", disk_index, index, is_trained)
    /\ disk_docs' = WrittenDocs("none", disk_docs, documents_cache)
    /\ rb' = IdleRebuild
    /\ resp' = Response("rebuild_index", <<>>, "ok", None)
    /\ UNCHANGED <<legacyVars, optVars, sv, sc>>

\* save_document up to its first await, inside _generate_embedding.
SvStart(content) ==
    /\ sv.pc = "idle"
    /\ sv' = [pc |-> "embedding", content |-> content]
    /\ UNCHANGED <<legacyVars, optVars, diskVars, resp, rb, sc>>

\* save_document resumed with the embedding: train, add, the insert into
\* documents_cache and the failing embedding.tolist() run without an await.
SvAdd ==
    LET g == GenerateEmbedding(sv.content, "none", redis_embeddings)
        train_fails == /\ index_type = "IndexIVFFlat"
                       /\ ~is_trained
                       /\ ~TrainAccepts(1, nlist)
        doc_id == Str(Len(documents_cache))
        r == Response("save_document", <<sv.content>>, "raised", None)
    IN  /\ sv.pc = "embedding"
        /\ sv' = IdleSave
        /\ redis_embeddings' = g.cache
        /\ UNCHANGED <<legacyVars, index_type, nlist, redis_results, diskVars, rb, sc>>
        /\ IF train_fails
           THEN /\ UNCHANGED <<index, is_trained, documents_cache>>
                /\ resp' = [r EXCEPT !.fault = "train"]
           ELSE /\ index' = Append(index, g.embedding.vec)
                /\ is_trained' = TRUE
                /\ documents_cache' = DictSet(documents_cache, doc_id, sv.content)
                /\ resp' = [r EXCEPT !.fault = "tolist", !.assigned = doc_id]

\* search_similar up to its first await, the Redis get.
ScStart(q, top_k, threshold) ==
    /\ sc.pc = "idle"
    /\ sc' = [pc |-> "get", args |-> <<q, top_k, threshold>>, results |-> <<>>]
    /\ UNCHANGED <<legacyVars, optVars, diskVars, resp, rb, sv>>

\* search_similar resumed with the answer of Redis: a hit returns it, a miss
\* searches self.index as it is now and awaits the Redis set.
ScCompute ==
    LET key == CacheKey(Embed(sc.args[1]), sc.args[2], sc.args[3])
        r == Response("search_similar", sc.args, "ok", <<>>)
        results == StoreResults(index, documents_cache, Embed(sc.args[1]),
                                sc.args[2], sc.args[3])
    IN  /\ sc.pc = "get"
        /\ UNCHANGED <<legacyVars, optVars, diskVars, rb, sv>>
        /\ IF CacheHas(redis_results, key)
           THEN /\ sc' = IdleSearch
                /\ resp' = [r EXCEPT !.value = LoadResults(redis_results[key]),
                                     !.cache_hit = TRUE]
           ELSE IF Len(index) = 0
           THEN /\ sc' = IdleSearch
                /\ resp' = [r EXCEPT !.fault = "empty_index"]
           ELSE /\ sc' = [sc EXCEPT !.pc = "setex", !.results = results]
                /\ UNCHANGED resp

\* search_similar resumed after the Redis set: it returns what it computed.
ScReturn ==
    LET key == CacheKey(Embed(sc.args[1]), sc.args[2], sc.args[3])
    IN  /\ sc.pc = "setex"
        /\ redis_results' = CachePut(redis_results, key, DumpResults(sc.results))
        /\ sc' = IdleSearch
        /\ resp' = [Response("search_similar", sc.args, "ok", sc.results) EXCEPT
                        !.cache_hit = FALSE]
        /\ UNCHANGED <<legacyVars, index_type, nlist, index, is_trained, documents_cache,
                       redis_embeddings, diskVars, rb, sv>>

SvStartStep ==
    \E content \in DocTexts :
        /\ Len(index) < MaxConcDocs
        /\ Len(documents_cache) < MaxConcDocs
        /\ SvStart(content)

ScStartStep ==
    \E q \in Queries, top_k \in TopKs, threshold \in Thresholds :
        ScStart(q, top_k, threshold)

NextConc ==
    \/ RbStart
    \/ RbAdd
    \/ RbSave
    \/ SvStartStep
    \/ SvAdd
    \/ ScStartStep
    \/ ScCompute
    \/ ScReturn

SpecConc == Init /\ [][NextConc]_vars

\* ------------------------------------------------ FaissVectorRepository

RECURSIVE RemoveFirst(_, _)
RemoveFirst(seq, x) ==
    IF Len(seq) = 0 THEN <<>>
    ELSE IF Head(seq) = x THEN Tail(seq)
    ELSE <<Head(seq)>> \o RemoveFirst(Tail(seq), x)

\* encoder.encode(texts) followed by index.add: the index is created on first
\* use; a missing encoder raises inside the try and leaves the index alone.
RECURSIVE EncodeAll(_)
EncodeAll(texts) ==
    IF Len(texts) = 0 THEN <<>>
    ELSE <<Embed(Head(texts))>> \o EncodeAll(Tail(texts))

AddToFaissIndex(idx, texts) ==
    [present |-> TRUE, rows |-> idx.rows \o EncodeAll(texts)]

RECURSIVE NonEmptyTexts(_)
NonEmptyTexts(texts) ==
    IF Len(texts) = 0 THEN <<>>
    ELSE IF Head(texts) = {} THEN NonEmptyTexts(Tail(texts))
    ELSE <<Head(texts)>> \o NonEmptyTexts(Tail(texts))

RECURSIVE NewDocuments(_, _)
NewDocuments(texts, uuid) ==
    IF Len(texts) = 0 THEN <<>>
    ELSE <<[key |-> uuid, content |-> Head(texts)]>>
         \o NewDocuments(Tail(texts), uuid + 1)

DocIds(docs) == [i \in DOMAIN docs |-> docs[i].key]

\* The ids of document_ids that are still in documents and have a text.
RECURSIVE IndexableIds(_, _)
IndexableIds(ids, docs) ==
    IF Len(ids) = 0 THEN <<>>
    ELSE IF DictHas(docs, Head(ids)) /\ DictGet(docs, Head(ids)) # {}
         THEN <<Head(ids)>> \o IndexableIds(Tail(ids), docs)
         ELSE IndexableIds(Tail(ids), docs)

TextsOf(ids, docs) == [i \in DOMAIN ids |-> DictGet(docs, ids[i])]

\* _rebuild_faiss_index: the new index and the new document_ids.
RebuildFaissIndex(idx, docs, ids, enc) ==
    LET kept == IndexableIds(ids, docs)
    IN  IF Len(docs) = 0 \/ Len(kept) = 0
        THEN [index |-> NoIndex, document_ids |-> ids]
        ELSE IF ~enc
        THEN [index |-> idx, document_ids |-> ids]
        ELSE [index |-> AddToFaissIndex(NoIndex, TextsOf(kept, docs)),
              document_ids |-> kept]

\* _save_to_disk: the index file is written when there is an index, then the
\* manifest; the first failing write ends the save, which logs and returns.
LegacyDiskFaults == {"none", "index", "docs"}

SaveToDisk(disk_fault, idx, docs, old_index_file, old_documents_file) ==
    LET index_fails == idx.present /\ disk_fault = "index"
        docs_fail == disk_fault = "docs"
    IN  [index_file |-> IF idx.present /\ ~index_fails
                        THEN [exists |-> TRUE, rows |-> idx.rows]
                        ELSE old_index_file,
         documents_file |-> IF index_fails \/ docs_fail
                            THEN old_documents_file
                            ELSE [exists |-> TRUE, items |-> docs],
         outcome |-> IF index_fails \/ docs_fail THEN "failed" ELSE "written"]

optAll == <<optVars, diskVars, concVars, registryVars, savers>>

\* add_document: no write to disk.
FaissAddDocument(text) ==
    LET doc_id == next_uuid
    IN  /\ next_uuid' = next_uuid + 1
        /\ documents' = DictSet(documents, doc_id, text)
        /\ document_ids' = Append(document_ids, doc_id)
        /\ faiss_index' = IF encoder /\ text # {}
                          THEN AddToFaissIndex(faiss_index, <<text>>)
                          ELSE faiss_index
        /\ resp' = Response("add_document", <<text>>, "ok", <<doc_id>>)
        /\ UNCHANGED <<optAll, encoder, index_file, documents_file>>

\* add_documents_batch: the ids, one add of all the texts, then _save_to_disk.
FaissAddDocumentsBatch(texts, disk_fault) ==
    LET docs == NewDocuments(texts, next_uuid)
        with_text == NonEmptyTexts(texts)
        new_index == IF encoder /\ Len(with_text) > 0
                     THEN AddToFaissIndex(faiss_index, with_text)
                     ELSE faiss_index
        saved == SaveToDisk(disk_fault, new_index, documents \o docs,
                            index_file, documents_file)
    IN  IF Len(texts) = 0
        THEN /\ resp' = Response("add_documents_batch", <<texts>>, "ok", <<>>)
             /\ UNCHANGED <<optAll, legacyVars>>
        ELSE /\ next_uuid' = next_uuid + Len(texts)
             /\ documents' = documents \o docs
             /\ document_ids' = document_ids \o DocIds(docs)
             /\ faiss_index' = new_index
             /\ index_file' = saved.index_file
             /\ documents_file' = saved.documents_file
             /\ resp' = [Response("add_documents_batch", <<texts>>, "ok",
                                  DocIds(docs)) EXCEPT !.disk = saved.outcome]
             /\ UNCHANGED <<optAll, encoder>>

\* delete_document: the index is not touched and nothing is written.
FaissDeleteDocument(doc_id) ==
    /\ IF DictHas(documents, doc_id)
       THEN /\ documents' = DictDel(documents, doc_id)
            /\ document_ids' = RemoveFirst(document_ids, doc_id)
            /\ resp' = Response("delete_document", <<doc_id>>, "ok", TRUE)
       ELSE /\ UNCHANGED <<documents, document_ids>>
            /\ resp' = Response("delete_document", <<doc_id>>, "ok", FALSE)
    /\ UNCHANGED <<optAll, encoder, faiss_index, next_uuid, index_file,
                   documents_file>>

\* clear_all: nothing is written.
FaissClearAll ==
    /\ documents' = <<>>
    /\ document_ids' = <<>>
    /\ faiss_index' = NoIndex
    /\ resp' = Response("clear_all", <<>>, "ok", TRUE)
    /\ UNCHANGED <<optAll, encoder, next_uuid, index_file, documents_file>>

\* remove_documents_by_filter, the filter given as the texts it matches.
RECURSIVE Unmatched(_, _)
Unmatched(docs, matched) ==
    IF Len(docs) = 0 THEN <<>>
    ELSE IF Head(docs).content \in matched THEN Unmatched(Tail(docs), matched)
    ELSE <<Head(docs)>> \o Unmatched(Tail(docs), matched)

RECURSIVE KeepIds(_, _)
KeepIds(ids, keys) ==
    IF Len(ids) = 0 THEN <<>>
    ELSE IF Head(ids) \in keys THEN <<Head(ids)>> \o KeepIds(Tail(ids), keys)
    ELSE KeepIds(Tail(ids), keys)

FaissRemoveDocumentsByFilter(matched, disk_fault) ==
    LET kept == Unmatched(documents, matched)
        removed == Len(documents) - Len(kept)
        ids == KeepIds(document_ids, DictKeys(kept))
        rebuilt == RebuildFaissIndex(faiss_index, kept, ids, encoder)
        saved == SaveToDisk(disk_fault, rebuilt.index, kept, index_file,
                            documents_file)
        r == Response("remove_documents_by_filter", <<matched>>, "ok", removed)
    IN  /\ documents' = kept
        /\ UNCHANGED <<optAll, encoder, next_uuid>>
        /\ IF removed > 0
           THEN /\ faiss_index' = rebuilt.index
                /\ document_ids' = rebuilt.document_ids
                /\ index_file' = saved.index_file
                /\ documents_file' = saved.documents_file
                /\ resp' = [r EXCEPT !.disk = saved.outcome]
           ELSE /\ UNCHANGED <<faiss_index, document_ids, index_file,
                               documents_file>>
                /\ resp' = r

\* reindex: the index is dropped and every document of document_ids that has
\* a text is added again; nothing is written.
FaissReindex ==
    LET texts == NonEmptyTexts(TextsOf(document_ids, documents))
    IN  /\ faiss_index' = IF ~encoder THEN faiss_index
                          ELSE IF Len(texts) = 0 THEN NoIndex
                          ELSE AddToFaissIndex(NoIndex, texts)
        /\ resp' = Response("reindex", <<>>, "ok", TRUE)
        /\ UNCHANGED <<optAll, encoder, documents, document_ids, next_uuid,
                       index_file, documents_file>>

Batches == {<<t>> : t \in DocTexts} \cup {<<t, u>> : t, u \in DocTexts}
Filters == {{t} : t \in DocTexts}

NextLegacy ==
    \/ \E text \in DocTexts :
           next_uuid <= MaxUuid /\ FaissAddDocument(text)
    \/ \E texts \in Batches, disk_fault \in LegacyDiskFaults :
           /\ next_uuid + Len(texts) - 1 <= MaxUuid
           /\ FaissAddDocumentsBatch(texts, disk_fault)
    \/ \E doc_id \in 1..MaxUuid : FaissDeleteDocument(doc_id)
    \/ FaissClearAll
    \/ \E matched \in Filters, disk_fault \in LegacyDiskFaults :
           FaissRemoveDocumentsByFilter(matched, disk_fault)
    \/ FaissReindex

\* _load_encoder may leave the encoder unset; the other repository stays as
\* main.py constructs it.
InitFaiss ==
    /\ index_type = "IndexIVFFlat"
    /\ nlist = DefaultNlist
    /\ index = <<>>
    /\ is_trained = NewIndexTrained(index_type)
    /\ documents_cache = <<>>
    /\ redis_results = EmptyCache
    /\ redis_embeddings = {}
    /\ InitDisk
    /\ InitConc
    /\ InitLegacy
    /\ InitRegistry
    /\ encoder \in BOOLEAN
    /\ resp = Response("none", <<>>, "ok", None)

SpecLegacy == InitFaiss /\ [][NextLegacy]_vars

\* ------------------------------------ FaissVectorRepository.search_documents

\* A query is the sequence of its lower-case words, a text the set of its
\* words.  `word in text` is a substring test: it also finds a word inside a
\* longer word of the text.
Infixes == {<<"tekst", "kontekst">>}
WordInText(word, text) ==
    \E w \in text : w = word \/ <<word, w>> \in Infixes

\* A tokenizer that keeps every word.
ExtractKeywordsAll(query) == query

\* _extract_keywords: stop words and words of one or two letters are dropped.
StopWords == {"na", "dlya"}
ShortWords == {"na", "ya"}
ExtractKeywords(query) ==
    SelectSeq(query, LAMBDA w : w \notin StopWords /\ w \notin ShortWords)

\* _calculate_exact_score: the share of the query words found, in hundredths.
RECURSIVE CountMatches(_, _)
CountMatches(query_words, text) ==
    IF Len(query_words) = 0 THEN 0
    ELSE (IF WordInText(Head(query_words), text) THEN 1 ELSE 0)
         + CountMatches(Tail(query_words), text)

CalculateExactScore(query_words, text) ==
    IF Len(query_words) = 0 THEN 0
    ELSE Percent(CountMatches(query_words, text), Len(query_words))

\* results.sort(key=lambda x: x.score, reverse=True): stable, best first.
RECURSIVE SortByScore(_)
SortByScore(results) ==
    IF Len(results) = 0 THEN <<>>
    ELSE LET m == CHOOSE i \in DOMAIN results :
                      /\ \A j \in DOMAIN results : results[j].score <= results[i].score
                      /\ \A j \in 1..(i - 1) : results[j].score < results[i].score
         IN  <<results[m]>>
             \o SortByScore([j \in 1..(Len(results) - 1) |->
                                IF j < m THEN results[j] ELSE results[j + 1]])

FirstKUncut(seq, k) == seq

FirstK(seq, k) == SubSeq(seq, 1, Min(k, Len(seq)))

\* ExactSearchStrategy.search over list(self.documents.values()).
RECURSIVE ExactMatches(_, _)
ExactMatches(query_words, docs) ==
    IF Len(docs) = 0 THEN <<>>
    ELSE LET score == CalculateExactScore(query_words, Head(docs).content)
         IN  (IF score > 0
              THEN <<[doc_id |-> Head(docs).key, score |-> score,
                      search_type |-> "exact"]>>
              ELSE <<>>)
             \o ExactMatches(query_words, Tail(docs))

ExactSearch(query, docs, top_k) ==
    FirstK(SortByScore(ExactMatches(ExtractKeywords(query), docs)), top_k)

\* The score faiss reports for a missing neighbour, whose position is -1.
NoHitScore == -(2 ^ 30)

QueryText(query) == {query[i] : i \in DOMAIN query}

\* index.search(query, k): the positions of the k best rows (1-based), filled
\* up with the position of -1, here 0, when the index has fewer rows.
FaissSearch(rows, q, k) ==
    LET found == IndexSearch(rows, q, k)
    IN  found \o [i \in 1..(k - Len(found)) |-> 0]

\* The loop of SemanticSearchStrategy.search: idx < len(document_ids) lets -1
\* through, and document_ids[-1] is the last id.
RECURSIVE SemanticHits(_, _, _, _, _)
SemanticHits(cand, rows, q, ids, docs) ==
    IF Len(cand) = 0 THEN <<>>
    ELSE LET p == Head(cand)
             doc_id == ids[IF p = 0 THEN Len(ids) ELSE p]
             score == IF p = 0 THEN NoHitScore ELSE Sim(q, rows[p])
         IN  (IF p <= Len(ids) /\ DictHas(docs, doc_id)
              THEN <<[doc_id |-> doc_id, score |-> score,
                      search_type |-> "semantic"]>>
              ELSE <<>>)
             \o SemanticHits(Tail(cand), rows, q, ids, docs)

\* SemanticSearchStrategy.search; a search for no neighbours ends in the
\* except branch or finds nothing, the empty list either way.
SemanticSearch(query, docs, top_k, enc, idx, ids) ==
    LET k == Min(top_k, Len(ids))
    IN  IF ~enc \/ ~idx.present \/ k <= 0 THEN <<>>
        ELSE SemanticHits(FaissSearch(idx.rows, Embed(QueryText(query)), k),
                          idx.rows, Embed(QueryText(query)), ids, docs)

\* Step 4 of HybridSearchStrategy.search: the first result of a document
\* keeps its place, a later one with a greater score takes its value.
RECURSIVE UniqueResults(_, _)
UniqueResults(combined, unique) ==
    IF Len(combined) = 0 THEN unique
    ELSE LET r == Head(combined)
             at == {i \in DOMAIN unique : unique[i].doc_id = r.doc_id}
         IN  UniqueResults(Tail(combined),
                 IF at = {} THEN Append(unique, r)
                 ELSE [i \in DOMAIN unique |->
                          IF i \in at /\ r.score > unique[i].score
                          THEN r ELSE unique[i]])

DeduplicatedNot(combined) == combined

Deduplicated(combined) == UniqueResults(combined, <<>>)

StrongMatch == 50

HybridSearchMerging(query, docs, top_k, enc, idx, ids) ==
    [results |->
         FirstK(SortByScore(Deduplicated(
                    ExactSearch(query, docs, top_k)
                    \o SemanticSearch(query, docs, top_k, enc, idx, ids))),
                top_k),
     semantic |-> TRUE]

\* HybridSearchStrategy.search: its list, and whether it ran the semantic pass.
HybridSearch(query, docs, top_k, enc, idx, ids) ==
    LET exact_results == ExactSearch(query, docs, top_k)
        good_exact_results ==
            SelectSeq(exact_results, LAMBDA r : r.score > StrongMatch)
        semantic_results == SemanticSearch(query, docs, top_k, enc, idx, ids)
        final_results ==
            SortByScore(Deduplicated(exact_results \o semantic_results))
    IN  IF Len(good_exact_results) > 0
        THEN [results |-> FirstK(good_exact_results, top_k), semantic |-> FALSE]
        ELSE [results |-> FirstK(final_results, top_k), semantic |-> TRUE]

\* search_documents: the results of the hybrid strategy, re-wrapped; the
\* threshold parameter is not read.
FaissSearchDocuments(query, top_k, threshold) ==
    LET h == HybridSearch(query, documents, top_k, encoder, faiss_index,
                          document_ids)
    IN  /\ resp' = Response("search_documents", <<query, top_k, threshold>>,
                            "ok", h)
        /\ UNCHANGED <<optAll, legacyVars>>

SearchTexts == {{}, {"kniga"}, {"kniga", "na"}, {"kontekst"}}
SearchQueries ==
    {<<"kniga">>, <<"kniga", "tekst">>, <<"kniga", "tekst", "na">>, <<"na">>}
SearchTopKs == {1, 2}
SearchThresholds == {60}

NextSearch ==
    \/ \E text \in SearchTexts :
           next_uuid <= MaxSearchUuid /\ FaissAddDocument(text)
    \/ \E doc_id \in 1..MaxSearchUuid : FaissDeleteDocument(doc_id)
    \/ \E query \in SearchQueries, top_k \in SearchTopKs,
          threshold \in SearchThresholds :
           FaissSearchDocuments(query, top_k, threshold)

SpecSearch == InitFaiss /\ [][NextSearch]_vars

\* ------------------------------------------- searches under two thresholds

ThresholdPair == {30, 60}

\* The index rejects a search for no neighbours, as current faiss does.
SearchPairStep ==
    \E q \in Queries, top_k \in TopKs, threshold \in ThresholdPair :
        SearchRequest(q, top_k, threshold, "none", "rejects_k0")

NextThreshold ==
    \/ SaveStep({"none"})
    \/ SearchPairStep
    \/ DeleteStep
    \/ ClearIndex

SpecThreshold == Init /\ [][NextThreshold]_vars

\* ---------------------------------------------------------- update_document

\* VectorService.update_document calling OptimizedFAISSRepository.update_document:
\* delete_document, then asyncio.run(save_document(...)).  Inside a running
\* event loop asyncio.run raises before the coroutine starts; outside one the
\* coroutine runs and raises at embedding.tolist().  Either exception is
\* caught and the update returns False.
UpdateDocument(document_id, content, in_loop, processed) ==
    LET docs == DictDel(documents_cache, document_id)
        done == IF in_loop THEN 0 ELSE Min(processed, Len(docs))
        added == IF NewIndexTrained(index_type) THEN done ELSE 0
        embedded == IF NewIndexTrained(index_type) THEN done ELSE Min(done, 1)
        rows == RebuiltRows(docs, added)
        trained == NewIndexTrained(index_type)
        cache == redis_embeddings \cup FirstContents(docs, embedded)
        train_fails == /\ index_type = "IndexIVFFlat"
                       /\ ~trained
                       /\ ~TrainAccepts(1, nlist)
        doc_id == Str(Len(docs))
        r == Response("update_document", <<document_id, content>>, "ok", FALSE)
    IN  /\ UNCHANGED <<legacyVars, concVars, index_type, nlist, redis_results,
                       diskVars>>
        /\ IF ~DictHas(documents_cache, document_id)
           THEN /\ UNCHANGED <<index, is_trained, documents_cache, redis_embeddings>>
                /\ resp' = r
           ELSE IF in_loop \/ train_fails
           THEN /\ documents_cache' = docs
                /\ index' = rows
                /\ is_trained' = trained
                /\ redis_embeddings' = IF in_loop THEN cache ELSE cache \cup {content}
                /\ resp' = [r EXCEPT !.fault = IF in_loop THEN "asyncio_run" ELSE "train"]
           ELSE /\ documents_cache' = DictSet(docs, doc_id, content)
                /\ index' = Append(rows, Embed(content))
                /\ is_trained' = TRUE
                /\ redis_embeddings' = cache \cup {content}
                /\ resp' = [r EXCEPT !.fault = "tolist", !.assigned = doc_id]

UpdateStep ==
    \E n \in 0..MaxDocs, content \in DocTexts, in_loop \in BOOLEAN,
       processed \in 0..MaxDocs :
        UpdateDocument(Str(n), content, in_loop, processed)

NextUpdate ==
    \/ SaveStep({"none"})
    \/ UpdateStep

SpecUpdate == Init /\ [][NextUpdate]_vars

\* ------------------------------------------------------------ add_documents

\* One save_document of the loop of add_documents, on the state `st` the
\* documents before it left: _generate_embedding calls the encoder on a miss
\* of the embedding cache, the vector and the document are added, and
\* embedding.tolist() raises, so that the caller gets no id.
SaveOne(st, content) ==
    LET calls == IF content \in st.cache THEN st.calls ELSE st.calls + 1
        train_fails == /\ index_type = "IndexIVFFlat"
                       /\ ~st.trained
                       /\ ~TrainAccepts(1, nlist)
    IN  IF train_fails
        THEN [st EXCEPT !.cache = @ \cup {content}, !.calls = calls]
        ELSE [rows |-> Append(st.rows, Embed(content)),
              trained |-> TRUE,
              docs |-> DictSet(st.docs, Str(Len(st.docs)), content),
              cache |-> st.cache \cup {content},
              calls |-> calls,
              ids |-> st.ids]

RECURSIVE SaveAll(_, _)
SaveAll(st, contents) ==
    IF Len(contents) = 0 THEN st
    ELSE SaveAll(SaveOne(st, Head(contents)), Tail(contents))

MaxBatchRows == 3

\* VectorService.add_documents, one encoder call for the batch, calling
\* OptimizedFAISSRepository.add_documents, asyncio.run(save_document(...)) per
\* document; inside a running event loop asyncio.run raises at once.
AddDocuments(contents, in_loop) ==
    LET start == [rows |-> index, trained |-> is_trained, docs |-> documents_cache,
                  cache |-> redis_embeddings, calls |-> 1, ids |-> <<>>]
        end == IF in_loop THEN start ELSE SaveAll(start, contents)
    IN  /\ index' = end.rows
        /\ is_trained' = end.trained
        /\ documents_cache' = end.docs
        /\ redis_embeddings' = end.cache
        /\ resp' = Response("add_documents", <<contents>>, "ok",
                            [ids |-> end.ids, encoder_calls |-> end.calls])
        /\ UNCHANGED <<legacyVars, concVars, index_type, nlist, redis_results,
                       diskVars>>

AddDocumentsStep ==
    \E contents \in Batches, in_loop \in BOOLEAN :
        /\ Len(index) + Len(contents) <= MaxBatchRows
        /\ AddDocuments(contents, in_loop)

NextBatch ==
    \/ AddDocumentsStep
    \/ ClearIndex
    \/ \E text \in redis_embeddings : ExpireEmbedding(text)

SpecBatch == Init /\ [][NextBatch]_vars

\* ------------------------------------------------- a search and its waits

\* VectorService.search_similar up to its encoder call, which runs in the
\* caller's coroutine with no timeout.
ScEncode(q, top_k, threshold) ==
    /\ sc.pc = "idle"
    /\ sc' = [pc |-> "encode", args |-> <<q, top_k, threshold>>, results |-> <<>>]
    /\ UNCHANGED <<legacyVars, optVars, diskVars, resp, rb, sv>>

\* The encoder returns the embedding: the repository's search_similar runs up
\* to its first await, the Redis get.
EncoderAnswers ==
    /\ sc.pc = "encode"
    /\ sc' = [sc EXCEPT !.pc = "get"]
    /\ UNCHANGED <<legacyVars, optVars, diskVars, resp, rb, sv>>

ScEncodeStep ==
    \E q \in Queries, top_k \in TopKs, threshold \in ThresholdPair :
        ScEncode(q, top_k, threshold)

\* encode() is a synchronous call: the event loop runs nothing else meanwhile.
NextWait ==
    \/ sc.pc # "encode" /\ SaveStep({"none"})
    \/ ScEncodeStep
    \/ EncoderAnswers
    \/ ScCompute
    \/ ScReturn

\* Redis answers every get and set and the event loop resumes the coroutine;
\* nothing makes the encoder answer, and the code sets no timer on its call.
SpecWait ==
    /\ Init
    /\ [][NextWait]_vars
    /\ WF_vars(ScCompute)
    /\ WF_vars(ScReturn)

\* ------------------------------------------------- the exact-match searcher

\* str.lower() on the words of the model.
Lower(w) == IF w = "Kniga" THEN "kniga" ELSE w
LowerQuery(query) == [i \in DOMAIN query |-> Lower(query[i])]
LowerText(text) == {Lower(w) : w \in text}
LowerDocs(docs) ==
    [i \in DOMAIN docs |-> [key |-> docs[i].key, content |-> LowerText(docs[i].content)]]

\* ExactSearchStrategy.search on the raw query and the raw document texts.
ExactStrategySearch(query, docs, top_k) ==
    ExactSearch(LowerQuery(query), LowerDocs(docs), top_k)

ExactStrategyStep(query, top_k) ==
    /\ resp' = Response("exact_search", <<query, top_k>>, "ok",
                        ExactStrategySearch(query, documents, top_k))
    /\ UNCHANGED <<optAll, legacyVars>>

MaxExactUuid == 3
ExactTexts == {{"Kniga"}, {"kniga", "tekst"}, {"kontekst"}, {"dlya"}}
ExactQueries ==
    {<<>>, <<"Kniga">>, <<"kniga", "tekst">>, <<"tekst", "dlya">>,
     <<"ya", "na">>, <<"kniga", "ya", "tekst">>,
     <<"kniga", "slovo", "pismo", "zakon">>}

NextExact ==
    \/ \E text \in ExactTexts :
           next_uuid <= MaxExactUuid /\ FaissAddDocument(text)
    \/ \E query \in ExactQueries, top_k \in SearchTopKs :
           ExactStrategyStep(query, top_k)

SpecExact == InitFaiss /\ [][NextExact]_vars

\* --------------------------------------------------- ModelFactoryRegistry

repoVars == <<optVars, diskVars, concVars, encoder, faiss_index, documents,
              document_ids, next_uuid, index_file, documents_file, savers>>

\* ModelFactoryRegistry.register_factory
RegisterFactory(name, factory) ==
    /\ factories' = DictSet(factories, name, factory)
    /\ resp' = Response("register_factory", <<name, factory>>, "ok", None)
    /\ UNCHANGED <<repoVars, next_factory>>

\* ModelFactoryRegistry.get_factory: a name that is not found makes a new
\* OptimizedModelFactory and registers it as "optimized".
GetFactory(name) ==
    LET made == OptimizedModelFactory(next_factory)
    IN  /\ UNCHANGED repoVars
        /\ IF DictHas(factories, name)
           THEN /\ resp' = Response("get_factory", <<name>>, "ok",
                                    DictGet(factories, name))
                /\ UNCHANGED registryVars
           ELSE /\ factories' = DictSet(factories, "optimized", made)
                /\ next_factory' = next_factory + 1
                /\ resp' = Response("get_factory", <<name>>, "ok", made)

\* ModelFactoryRegistry.get_available_factories
GetAvailableFactories ==
    /\ resp' = Response("get_available_factories", <<>>, "ok", DocIds(factories))
    /\ UNCHANGED <<repoVars, registryVars>>

MaxFactories == 3
FactoryNames == {"optimized", "custom", "non_existent"}
CustomFactories == {[class |-> "Mock", object |-> -1],
                    [class |-> "Mock", object |-> -2]}

GetFactoryStep ==
    \E name \in FactoryNames :
        /\ next_factory <= MaxFactories
        /\ GetFactory(name)

NextRegistry ==
    \/ \E name \in FactoryNames \ {"non_existent"}, factory \in CustomFactories :
           RegisterFactory(name, factory)
    \/ GetFactoryStep
    \/ GetAvailableFactories

SpecRegistry == Init /\ [][NextRegistry]_vars

\* ------------------------------------------------------- device strategies

\* A config argument: None, or a dict.  Memory sizes are in GB.
NoConfig == [given |-> FALSE, items |-> <<>>]
Config(items) == [given |-> TRUE, items |-> items]

\* `config.get("required_memory", 0) if config else 0`: None and the empty
\* dict are both falsy.
RequiredMemory(config) ==
    IF config.given /\ Len(config.items) > 0 /\ DictHas(config.items, "required_memory")
    THEN DictGet(config.items, "required_memory")
    ELSE 0

\* AutoDeviceStrategy.select_device
AutoSelectDevice(cuda_available, gpu_memory, config) ==
    IF cuda_available THEN "cuda" ELSE "cpu"

\* GPUFirstStrategy.select_device
GPUFirstSelectDevice(cuda_available, gpu_memory, config) ==
    IF cuda_available
    THEN IF gpu_memory >= RequiredMemory(config) THEN "cuda" ELSE "cpu"
    ELSE "cpu"

\* CPUOnlyStrategy.select_device
CPUOnlySelectDevice(cuda_available, gpu_memory, config) == "cpu"

GpuMemories == {0, 4, 8, 16}
Configs ==
    {NoConfig, Config(<<>>),
     Config(<<[key |-> "required_memory", content |-> 8]>>),
     Config(<<[key |-> "max_length", content |-> 512]>>),
     Config(<<[key |-> "max_length", content |-> 512],
              [key |-> "required_memory", content |-> 8]>>)}

SelectDevice(strategy, cuda_available, gpu_memory, config) ==
    /\ resp' = Response("select_device",
                        <<strategy, cuda_available, gpu_memory, config>>, "ok",
                        IF strategy = "gpu_first"
                        THEN GPUFirstSelectDevice(cuda_available, gpu_memory, config)
                        ELSE CPUOnlySelectDevice(cuda_available, gpu_memory, config))
    /\ UNCHANGED <<repoVars, registryVars>>

NextDevice ==
    \/ \E cuda_available \in BOOLEAN, gpu_memory \in GpuMemories, config \in Configs :
           SelectDevice("gpu_first", cuda_available, gpu_memory, config)
    \/ \E cuda_available \in BOOLEAN, gpu_memory \in GpuMemories, config \in Configs :
           SelectDevice("cpu_only", cuda_available, gpu_memory, config)

SpecDevice == Init /\ [][NextDevice]_vars

\* ------------------------------------------- concurrent save_document calls

saveVars == <<optVars, diskVars, concVars, registryVars, encoder, faiss_index,
              documents, document_ids, next_uuid, index_file, documents_file>>

\* Caller c's save_document up to its first await, inside _generate_embedding;
\* the caller's previous call has ended.
SaverStart(c, content) ==
    /\ savers[c].pc # "embedding"
    /\ savers' = [savers EXCEPT ![c] = [IdleSaver EXCEPT !.pc = "embedding",
                                                         !.content = content]]
    /\ UNCHANGED <<saveVars, resp>>

\* Caller c's save_document resumed with the embedding: train, add, the id
\* from the size of documents_cache, the insert, and embedding.tolist(), all
\* without an await.  row is the position the added vector takes.
SaverAdd(c) ==
    LET content == savers[c].content
        g == GenerateEmbedding(content, "none", redis_embeddings)
        train_fails == /\ index_type = "IndexIVFFlat"
                       /\ ~is_trained
                       /\ ~TrainAccepts(1, nlist)
        doc_id == Str(Len(documents_cache))
        r == Response("save_document", <<content>>, "raised", None)
    IN  /\ savers[c].pc = "embedding"
        /\ redis_embeddings' = g.cache
        /\ UNCHANGED <<index_type, nlist, redis_results, diskVars, concVars,
                       registryVars, encoder, faiss_index, documents,
                       document_ids, next_uuid, index_file, documents_file>>
        /\ IF train_fails
           THEN /\ UNCHANGED <<index, is_trained, documents_cache>>
                /\ savers' = [savers EXCEPT ![c].pc = "raised"]
                /\ resp' = [r EXCEPT !.fault = "train"]
           ELSE /\ index' = Append(index, g.embedding.vec)
                /\ is_trained' = TRUE
                /\ documents_cache' = DictSet(documents_cache, doc_id, content)
                /\ IF HasToList(g.embedding)
                   THEN /\ savers' = [savers EXCEPT ![c] =
                                [@ EXCEPT !.pc = "returned", !.added = TRUE,
                                          !.doc_id = doc_id, !.row = Len(index)]]
                        /\ resp' = [r EXCEPT !.status = "ok", !.value = doc_id,
                                             !.assigned = doc_id]
                   ELSE /\ savers' = [savers EXCEPT ![c] =
                                [@ EXCEPT !.pc = "raised", !.added = TRUE,
                                          !.doc_id = doc_id, !.row = Len(index)]]
                        /\ resp' = [r EXCEPT !.fault = "tolist", !.assigned = doc_id]

MaxSaverDocs == 3

NextSavers ==
    \/ \E c \in Callers, content \in DocTexts :
           /\ Len(documents_cache)
                  + Cardinality({d \in Callers : savers[d].pc = "embedding"})
                  < MaxSaverDocs
           /\ SaverStart(c, content)
    \/ \E c \in Callers : SaverAdd(c)

SpecSavers == Init /\ [][NextSavers]_vars

\* ------------------------------------------------------------------ claims

ResultIds(results) == {results[i].document_id : i \in DOMAIN results}

\* C1: a search that follows a mutation of the store is not answered from a
\* result-cache entry written before the mutation: the list a search returns
\* from the cache is the list computed on the store as it is now.
C1_SearchReflectsStore ==
    (resp.op = "search_similar" /\ resp.status = "ok" /\ resp.cache_hit
        /\ resp.value # <<>>)
    => resp.value = StoreResults(index, documents_cache, Embed(resp.args[1]),
                                 resp.args[2], resp.args[3])

\* C2: a delete that returns true removes exactly that document (the count
\* drops by one, every other id keeps its text), and the search that follows
\* it returns no result with the deleted id.
C2_DeleteStep ==
    (DeleteStep /\ resp'.value = TRUE)
    => /\ Len(documents_cache') = Len(documents_cache) - 1
       /\ ~DictHas(documents_cache', resp'.args[1])
       /\ \A k \in DictKeys(documents_cache) \ {resp'.args[1]} :
              /\ DictHas(documents_cache', k)
              /\ DictGet(documents_cache', k) = DictGet(documents_cache, k)
C2_SearchAfterDelete ==
    (resp.op = "delete_document" /\ resp.value = TRUE
        /\ SearchStep({"none"}) /\ resp'.status = "ok")
    => resp.args[1] \notin ResultIds(resp'.value)
C2_DeleteCorrect == [][C2_DeleteStep /\ C2_SearchAfterDelete]_vars

\* C4: the id a save assigns is the id of no document in the store, so a
\* save overwrites nothing, and it is not the id the preceding delete freed.
C4_SaveAssigns == SaveStep({"none"}) /\ resp'.assigned # None
C4_FreshId ==
    C4_SaveAssigns
    => /\ ~DictHas(documents_cache, resp'.assigned)
       /\ (resp.op = "delete_document" /\ resp.value = TRUE)
              => resp'.assigned # resp.args[1]
C4_IdsNeverReused == [][C4_FreshId]_vars
\* C8: a search request whose encoder call raises still completes without
\* error and returns a result list (the exact-match results, empty when there
\* are none).
C8_EncoderFailureDegrades ==
    (resp.op = "search_similar" /\ resp.fault = "encoder")
    => (resp.status = "ok" /\ resp.value # None)

\* C9: when a Redis get or set fails, the operation behaves as on a cache
\* miss and succeeds: a search returns the list computed on the store and a
\* save returns the new document id.
C9_CacheFailsOpen ==
    resp.fault \in {"redis_get", "redis_setex"}
    => /\ resp.status = "ok"
       /\ resp.op = "search_similar"
              => resp.value = StoreResults(index, documents_cache, Embed(resp.args[1]),
                                           resp.args[2], resp.args[3])
       /\ resp.op = "save_document"
              => (resp.assigned # None /\ resp.value = resp.assigned)
\* C5: after ingestions only, a save to disk and a load in a new process
\* give a store whose i-th document is the one whose vector is row i of the
\* loaded index, with as many documents as index rows.
C5_LoadKeepsOrder ==
    resp.op = "restart"
    => /\ Len(documents_cache) = Len(index)
       /\ \A i \in DOMAIN documents_cache :
              /\ documents_cache[i].key = Str(i - 1)
              /\ Embed(documents_cache[i].content) = index[i]
\* C6: a search that reads the index while a rebuild is in progress reads
\* either the index as it was before the rebuild started or the completed new
\* index, never an index holding only part of the documents' vectors.
C6_SearchReadsIndex ==
    /\ ScCompute
    /\ ~CacheHas(redis_results, CacheKey(Embed(sc.args[1]), sc.args[2], sc.args[3]))
C6_ReadWholeIndex ==
    (rb.pc # "idle" /\ C6_SearchReadsIndex)
    => index \in {rb.before, RebuiltRows(documents_cache, Len(documents_cache))}
C6_NoPartialIndexRead == [][C6_ReadWholeIndex]_vars

\* C7: between the first and the last change a rebuild makes to the index,
\* no other mutating operation changes the index or the document store.
C7_OneWriter ==
    (rb.pc = "embedding" /\ SvAdd)
    => (index' = index /\ documents_cache' = documents_cache)
C7_SingleMutation == [][C7_OneWriter]_vars
\* C3: the index of FaissVectorRepository holds exactly one vector row per
\* stored document, and the document that row position p is mapped to,
\* document_ids[p], is the document whose text produced the vector in row p.
C3_RowsMatchDocuments ==
    encoder =>
        /\ Len(faiss_index.rows) = Len(documents)
        /\ \A p \in DOMAIN faiss_index.rows :
               /\ p \in DOMAIN document_ids
               /\ DictHas(documents, document_ids[p])
               /\ Embed(DictGet(documents, document_ids[p])) = faiss_index.rows[p]

\* C10: an ingestion whose write to disk failed still returns the new ids and
\* keeps the new documents in memory, and the next operation that changes the
\* store or the index attempts the write to disk again.
C10_FailedIngestion ==
    resp.op = "add_documents_batch" /\ resp.disk = "failed"
C10_IngestionKept ==
    C10_FailedIngestion =>
        /\ resp.status = "ok"
        /\ Len(resp.value) = Len(resp.args[1])
        /\ \A i \in DOMAIN resp.value : DictHas(documents, resp.value[i])
C10_Mutation ==
    documents' # documents \/ faiss_index' # faiss_index
C10_NextMutationWrites ==
    (C10_FailedIngestion /\ C10_Mutation) => resp'.disk # "none"
C10_FailedWriteRetried == [][C10_IngestionKept /\ C10_NextMutationWrites]_vars
\* C11: with IndexIVFFlat no path that adds vectors calls add on a handle
\* that is not trained or train with fewer vectors than nlist needs, and the
\* rows of the index are rows of a trained handle.
C11_TrainedBeforeAdd ==
    index_type = "IndexIVFFlat" =>
        /\ resp.fault \notin {"train", "add_untrained"}
        /\ Len(index) > 0 => is_trained
\* The two passes of the hybrid search the last response answered.
SearchAnswered == resp.op = "search_documents"
ExactPass == ExactSearch(resp.args[1], documents, resp.args[2])
SemanticPass ==
    SemanticSearch(resp.args[1], documents, resp.args[2], encoder, faiss_index,
                   document_ids)
PassIds(results) == {results[i].doc_id : i \in DOMAIN results}
ScoreIn(results, doc_id) ==
    results[CHOOSE i \in DOMAIN results : results[i].doc_id = doc_id].score

\* C12: the list hybrid search returns holds each document id at most once,
\* also when the exact pass and the semantic pass both return the document.
C12_NoDuplicateIds ==
    SearchAnswered =>
        \A i, j \in DOMAIN resp.value.results :
            resp.value.results[i].doc_id = resp.value.results[j].doc_id => i = j
C12_BothPassesReturnOne ==
    /\ SearchAnswered
    /\ resp.value.semantic
    /\ PassIds(ExactPass) \cap PassIds(SemanticPass)
       \cap PassIds(resp.value.results) # {}

\* C13: when some document's overlap score exceeds the strong-match
\* threshold, hybrid search returns only strong exact matches, at most top_k,
\* tagged exact, and does not run the semantic pass.
C13_StrongExists ==
    \E i \in DOMAIN documents :
        CalculateExactScore(ExtractKeywords(resp.args[1]), documents[i].content)
            > StrongMatch
C13_StrongExactOnly ==
    (SearchAnswered /\ C13_StrongExists) =>
        /\ ~resp.value.semantic
        /\ Len(resp.value.results) \in 1..resp.args[2]
        /\ \A i \in DOMAIN resp.value.results :
               LET r == resp.value.results[i]
               IN  /\ r.search_type = "exact"
                   /\ r.score > StrongMatch
                   /\ r.score = CalculateExactScore(ExtractKeywords(resp.args[1]),
                                                    DictGet(documents, r.doc_id))
C13_StrongReturned ==
    /\ SearchAnswered
    /\ C13_StrongExists
    /\ encoder
    /\ faiss_index.present
    /\ Len(resp.value.results) > 0

\* C14: the list hybrid search returns has at most top_k entries, is ordered
\* from the best score to the worst, has an exact result before a semantic one
\* of the same score, and gives a document of both passes the better score.
C14_RankedAndCut ==
    SearchAnswered =>
        LET results == resp.value.results
        IN  /\ Len(results) <= resp.args[2]
            /\ \A i, j \in DOMAIN results :
                   i < j =>
                       /\ results[i].score >= results[j].score
                       /\ results[i].score = results[j].score
                          => ~(/\ results[i].search_type = "semantic"
                               /\ results[j].search_type = "exact")
            /\ resp.value.semantic =>
                   \A d \in PassIds(ExactPass) \cap PassIds(SemanticPass)
                            \cap PassIds(results) :
                       /\ ScoreIn(results, d) >= ScoreIn(ExactPass, d)
                       /\ ScoreIn(results, d) >= ScoreIn(SemanticPass, d)
C14_SemanticScoreWins ==
    /\ SearchAnswered
    /\ resp.value.semantic
    /\ \E d \in PassIds(ExactPass) \cap PassIds(SemanticPass)
                \cap PassIds(resp.value.results) :
           /\ ScoreIn(SemanticPass, d) > ScoreIn(ExactPass, d)
           /\ ScoreIn(resp.value.results, d) = ScoreIn(SemanticPass, d)
    /\ \E i, j \in DOMAIN resp.value.results :
           /\ i < j
           /\ resp.value.results[i].search_type # resp.value.results[j].search_type
\* C15: every result a search returns has a relevance score that satisfies
\* the threshold the caller gave.
C15_ScoresReachThreshold ==
    SearchAnswered =>
        \A i \in DOMAIN resp.value.results :
            resp.value.results[i].score >= resp.args[3]
\* What search_similar answers in the current state: the cached list when
\* Redis holds the key, the list computed on the store otherwise.
AnswerNow(q, top_k, threshold) ==
    IF CacheHas(redis_results, CacheKey(Embed(q), top_k, threshold))
    THEN LoadResults(redis_results[CacheKey(Embed(q), top_k, threshold)])
    ELSE StoreResults(index, documents_cache, Embed(q), top_k, threshold)

\* C16: for the same query and top_k, a search with the greater threshold never
\* returns more results than a search with the smaller one in the same state.
C16_StricterNeverMore ==
    (resp.op = "search_similar" /\ resp.status = "ok") =>
        \A t \in ThresholdPair :
            /\ t < resp.args[3] =>
                   Len(resp.value) <= Len(AnswerNow(resp.args[1], resp.args[2], t))
            /\ t > resp.args[3] =>
                   Len(AnswerNow(resp.args[1], resp.args[2], t)) <= Len(resp.value)
\* C17: two searches with the same (query, top_k, threshold) and no mutation
\* of the store between them return the same list, and the second is served
\* from the result cache with the list that was stored.
C17_Repeat ==
    /\ resp.op = "search_similar"
    /\ resp.status = "ok"
    /\ SearchStep({"none"})
    /\ resp'.args = resp.args
C17_SameList == C17_Repeat => resp'.value = resp.value
C17_FromCache ==
    C17_Repeat =>
        /\ resp'.cache_hit
        /\ CacheHas(redis_results, CacheKey(Embed(resp.args[1]), resp.args[2], resp.args[3]))
        /\ resp'.value = LoadResults(redis_results[
               CacheKey(Embed(resp.args[1]), resp.args[2], resp.args[3])])
C17_RepeatedSearchSame == [][C17_SameList /\ C17_FromCache]_vars
C17_RepeatedSearchSameList == [][C17_SameList]_vars
\* C18: after an ingestion has added its vector to the index, the position of
\* that vector resolves in the document store to the ingested document.
C18_Ingestion == SaveStep({"none"}) /\ index' # index
C18_PositionResolves ==
    C18_Ingestion =>
        /\ DictHas(documents_cache', Str(Len(index') - 1))
        /\ Embed(DictGet(documents_cache', Str(Len(index') - 1)))
               = index'[Len(index')]
        /\ DictGet(documents_cache', Str(Len(index') - 1)) = resp'.args[1]
C18_IngestedResolvable == [][C18_PositionResolves]_vars
\* C19: update(id, doc) on a stored id returns true, after which the old id
\* resolves to nothing, the new content is stored under a new id that differs
\* from the old one and from every other stored id, and every other document
\* is unchanged; on an unknown id it returns false and changes nothing.
C19_Others(id) == SelectSeq(documents_cache, LAMBDA e : e.key # id)
C19_Replaced ==
    LET id == resp'.args[1]
    IN  /\ resp'.value = TRUE
        /\ ~DictHas(documents_cache', id)
        /\ \E new \in DictKeys(documents_cache') \ DictKeys(documents_cache) :
               /\ DictGet(documents_cache', new) = resp'.args[2]
               /\ documents_cache' = Append(C19_Others(id),
                                            [key |-> new, content |-> resp'.args[2]])
C19_Refused ==
    /\ resp'.value = FALSE
    /\ UNCHANGED <<index, documents_cache>>
C19_UpdateStep ==
    UpdateStep =>
        IF DictHas(documents_cache, resp'.args[1]) THEN C19_Replaced ELSE C19_Refused
C19_UpdateReplaces == [][C19_UpdateStep]_vars
\* C20: a search on a store that holds no documents returns an empty result
\* list and reports no error, for every query, top_k, threshold and index type.
C20_SearchOfEmptyStore ==
    /\ Len(documents_cache) = 0
    /\ SearchStep({"none"})
C20_EmptyAnswer ==
    C20_SearchOfEmptyStore =>
        /\ resp'.status = "ok"
        /\ resp'.value = <<>>
C20_EmptyStoreSearchEmpty == [][C20_EmptyAnswer]_vars
\* C21: when the index returns a position for which the document store has
\* no document, that result is skipped, every other result of the query is
\* still returned and the query does not fail.
C21_Candidates(q, top_k) ==
    IndexSearch(index, Embed(q), Min(top_k * 2, Len(index)))
C21_Resolved(q, top_k, threshold) ==
    SelectSeq(C21_Candidates(q, top_k),
              LAMBDA i : /\ Sim(Embed(q), index[i]) >= threshold
                         /\ DictHas(documents_cache, Str(i - 1)))
C21_Unresolved(q, top_k, threshold) ==
    SelectSeq(C21_Candidates(q, top_k),
              LAMBDA i : /\ Sim(Embed(q), index[i]) >= threshold
                         /\ ~DictHas(documents_cache, Str(i - 1)))
C21_FreshSearch ==
    /\ SearchStep({"none"})
    /\ ~resp'.cache_hit
    /\ Len(index) > 0
C21_SkipsOnlyMissing ==
    C21_FreshSearch =>
        LET q == resp'.args[1]
            top_k == resp'.args[2]
            threshold == resp'.args[3]
            resolved == C21_Resolved(q, top_k, threshold)
        IN  /\ resp'.status = "ok"
            /\ Len(resp'.value) = Min(top_k, Len(resolved))
            /\ \A n \in DOMAIN resp'.value :
                   /\ resp'.value[n].document_id = Str(resolved[n] - 1)
                   /\ resp'.value[n].content
                          = DictGet(documents_cache, Str(resolved[n] - 1))
C21_MissingDocumentSkipped == [][C21_SkipsOnlyMissing]_vars
C21_SkippedAndReturned ==
    /\ resp.op = "search_similar"
    /\ resp.status = "ok"
    /\ ~resp.cache_hit
    /\ Len(resp.value) > 0
    /\ resp.value = StoreResults(index, documents_cache, Embed(resp.args[1]),
                                 resp.args[2], resp.args[3])
    /\ Len(C21_Unresolved(resp.args[1], resp.args[2], resp.args[3])) > 0
    /\ C21_Unresolved(resp.args[1], resp.args[2], resp.args[3])[1]
           = C21_Candidates(resp.args[1], resp.args[2])[1]
\* C22: a batch ingestion of n >= 2 texts calls the encoder once for the
\* whole batch, appends the n vectors to the index and the n documents to the
\* store in the order of the input, and returns n ids in that order.
C22_Batch ==
    /\ AddDocumentsStep
    /\ Len(resp'.args[1]) >= 2
C22_BatchAppended ==
    C22_Batch =>
        LET contents == resp'.args[1]
            n == Len(contents)
            ids == resp'.value.ids
        IN  /\ resp'.value.encoder_calls = 1
            /\ Len(ids) = n
            /\ index' = index \o [i \in 1..n |-> Embed(contents[i])]
            /\ Len(documents_cache') = Len(documents_cache) + n
            /\ \A i \in 1..n :
                   /\ documents_cache'[Len(documents_cache) + i].key = ids[i]
                   /\ documents_cache'[Len(documents_cache) + i].content = contents[i]
C22_BatchOneEncoderCall == [][C22_BatchAppended]_vars
\* C23: every search request eventually returns to its caller, also when the
\* encoder call never answers.
C23_SearchReturns == (sc.pc # "idle") ~> (sc.pc = "idle")
\* C24: after clear has returned success the document count and the index
\* size are 0, and a search issued before the next ingestion returns an empty
\* list, also for a query whose results were cached before the clear.
C24_Wiped ==
    (ClearIndex /\ resp'.value = TRUE) =>
        /\ Len(documents_cache') = 0
        /\ Len(index') = 0
C24_SearchAfterClear ==
    (resp.op = "clear_index" /\ resp.value = TRUE /\ SearchStep({"none"})) =>
        /\ resp'.status = "ok"
        /\ resp'.value = <<>>
C24_ClearWipesAll == [][C24_Wiped /\ C24_SearchAfterClear]_vars
\* C25: the exact-match searcher keeps the lowercased query words of at least
\* 3 characters that are not stop words, scores a document by the share of
\* those words found in it, returns the documents whose score is above the
\* minimum overlap fraction, best first and cut to top_k, and returns nothing
\* for a query with no word left.
MinOverlap == 0
DefaultThreshold == 30
C25_Words ==
    SelectSeq(LowerQuery(resp.args[1]),
              LAMBDA w : w \notin ShortWords /\ w \notin StopWords)
C25_Score(text) ==
    IF Len(C25_Words) = 0 THEN 0
    ELSE (100 * Cardinality({i \in DOMAIN C25_Words :
                                 WordInText(C25_Words[i], LowerText(text))}))
             \div Len(C25_Words)
C25_Matching == {i \in DOMAIN documents : C25_Score(documents[i].content) > MinOverlap}
C26_Lookup ==
    GetFactoryStep =>
        /\ IF DictHas(factories, resp'.args[1])
           THEN resp'.value = DictGet(factories, resp'.args[1])
           ELSE resp'.value.class = "OptimizedModelFactory"
        /\ (resp.op = "register_factory" /\ resp'.args[1] = resp.args[1])
               => resp'.value = resp.args[2]
        /\ \A name \in DictKeys(factories) :
               /\ DictHas(factories', name)
               /\ DictGet(factories', name) = DictGet(factories, name)
C26_Listing ==
    GetAvailableFactories =>
        {resp'.value[i] : i \in DOMAIN resp'.value}
            = {"optimized"} \cup DictKeys(factories)
C26_RegistryContract == [][C26_Lookup /\ C26_Listing]_vars
\* C27: GPUFirstStrategy.select_device returns "cuda" exactly when CUDA is
\* available and the GPU's total memory is at least the config's
\* required_memory (0 without a config or without the key) and "cpu"
\* otherwise; CPUOnlyStrategy.select_device always returns "cpu".
C27_Required ==
    LET config == resp.args[4]
    IN  IF config.given /\ "required_memory" \in DictKeys(config.items)
        THEN DictGet(config.items, "required_memory")
        ELSE 0
C27_DeviceSelected ==
    resp.op = "select_device" =>
        /\ resp.value \in {"cuda", "cpu"}
        /\ resp.args[1] = "gpu_first" =>
               (resp.value = "cuda" <=> (resp.args[2] /\ resp.args[3] >= C27_Required))
        /\ resp.args[1] = "cpu_only" => resp.value = "cpu"
C27_GpuTooSmall ==
    /\ resp.op = "select_device"
    /\ resp.args[1] = "gpu_first"
    /\ resp.args[2]
    /\ resp.args[3] > 0
    /\ resp.args[3] < C27_Required
    /\ resp.value = "cpu"
\* C28: a semantic search returns no document for the index answer -1, "no
\* neighbour": every semantic result is the document mapped to a row position
\* p with 0 <= p < number of index rows, so there are at most as many results
\* as rows and none carries the score of a missing neighbour.
C28_OnlyRealRows ==
    (SearchAnswered /\ resp.value.semantic) =>
        /\ Len(SemanticPass) <= Len(faiss_index.rows)
        /\ \A i \in DOMAIN SemanticPass :
               /\ SemanticPass[i].score # NoHitScore
               /\ \E p \in DOMAIN faiss_index.rows :
                      /\ p \in DOMAIN document_ids
                      /\ document_ids[p] = SemanticPass[i].doc_id
\* C29: when save_document raises, the index and the document store are as
\* they were before the call: no vector was added, no document inserted.
C29_SaveRaised ==
    /\ \E fault \in SaveFaults : SaveStep({fault})
    /\ resp'.status = "raised"
C29_NothingAdded ==
    C29_SaveRaised => (index' = index /\ documents_cache' = documents_cache)
C29_FailedSaveLeavesStore == [][C29_NothingAdded]_vars
\* C30: for any interleaving of concurrent save_document calls, a call that
\* has added its vector returns an id, the returned ids are pairwise distinct,
\* and each is the row position of the caller's own vector.
C30_IdIsOwnRow ==
    \A c \in Callers :
        savers[c].added =>
            /\ savers[c].pc = "returned"
            /\ savers[c].doc_id = Str(savers[c].row)
            /\ index[savers[c].row + 1] = Embed(savers[c].content)
C30_DistinctIds ==
    \A c, d \in Callers :
        (c # d /\ savers[c].added /\ savers[d].added)
            => savers[c].doc_id # savers[d].doc_id
C30_AssignedIdIsOwnRow ==
    /\ C30_DistinctIds
    /\ \A c \in Callers :
           savers[c].added =>
               /\ savers[c].doc_id = Str(savers[c].row)
               /\ index[savers[c].row + 1] = Embed(savers[c].content)

====
